---- MODULE Spec2Model ----
(***************************************************************************)
(* Version history of a collaboratively edited document: the edit recorder *)
(* (VersionHistory, src/src/lib/version-history.ts) and the playback       *)
(* engine (PlaybackEngine, src/unnamed/part_004).                          *)
(*                                                                         *)
(* The CRDT document is a grow-only pair of sets: the atoms inserted and   *)
(* the atoms deleted.  An update is such a pair too, applying an update is *)
(* the union, and the shared text is the inserted atoms that are not       *)
(* deleted, in atom order.                                                 *)
(***************************************************************************)
EXTENDS Integers, Sequences, FiniteSets, TLC

\* Bounds of the model.
MaxDeltas == 3
MaxTime == 2
SnapshotInterval == 2

Atoms == 0 .. (MaxDeltas - 1)
Times == 0 .. MaxTime

\* The callbacks a caller subscribes, and the speeds it asks for.
Listeners == {1}
Speeds == {-1, 0, 1, 2}

\* ------------------------------------------------------------------ Y.Doc

EmptyDoc == [ins |-> {}, del |-> {}]

\* Y.applyUpdate(doc, update): commutative, idempotent merge.
ApplyUpdate(doc, update) ==
  [ins |-> doc.ins \cup update.ins, del |-> doc.del \cup update.del]

\* Y.encodeStateAsUpdate(doc): the whole state as one update.
EncodeStateAsUpdate(doc) == [ins |-> doc.ins, del |-> doc.del]

RECURSIVE SortedSeq(_)
SortedSeq(S) ==
  IF S = {} THEN <<>>
  ELSE LET m == CHOOSE x \in S : \A y \in S : x <= y
       IN  <<m>> \o SortedSeq(S \ {m})

\* doc.getText("shared").toString(): the visible atoms in order.
GetText(doc) == SortedSeq(doc.ins \ doc.del)

\* getDocumentLength(doc)
GetDocumentLength(doc) == Len(GetText(doc))

VARIABLES
  now,              \* the clock read by Date.now()
  liveDoc,          \* the document the recorder tracks
  nextAtom,         \* number of deltas the live document has received
  tracking,         \* "fresh" | "active" | "stopped": whether the update handler is attached
  edits,            \* VersionHistory.edits
  snapshots,        \* VersionHistory.snapshots
  editCounter,      \* VersionHistory.editCounter
  updateListeners,  \* VersionHistory.updateListeners
  notified,         \* observer: the recorder's last operation and the listener calls it made
  cleared,          \* observer: whether clearHistory was called since tracking started
  retired,          \* observer: ids of edits that clearHistory removed
  playbackDoc,      \* PlaybackEngine.playbackDoc: <<>> (null) or <<doc>>
  currentEditIndex, \* PlaybackEngine.currentEditIndex
  isPlaying,        \* PlaybackEngine.isPlaying
  playbackSpeed,    \* PlaybackEngine.playbackSpeed
  eventListeners,   \* PlaybackEngine.eventListeners
  loop,             \* the play loop suspended in sleep(), with the log it was given
  call,             \* observer: the last engine call made with the current log
  emitted,          \* observer: the events that call produced, with their receivers
  memo,             \* observer: one remembered seekToTimestamp result for the current log
  run,              \* observer: the stop events, pause and resume of the play loop in flight
  watching,         \* observer: whether the play loops are observed at all
  slept,            \* observer: the last sleep() playForward asked for
  played,           \* observer: the playback events of the last play call, when switched on
  found,            \* observer: the last snapshot lookup, by the engine and by the recorder
  viewed            \* observer: the last query of the log's views, with what it returned

recVars ==
  <<now, liveDoc, nextAtom, tracking, edits, snapshots, editCounter, updateListeners,
    notified, cleared, retired>>
engVars == <<playbackDoc, currentEditIndex, isPlaying, playbackSpeed, eventListeners, loop>>
obsVars == <<call, emitted, memo, run, watching, slept, played, found, viewed>>
vars == <<recVars, engVars, obsVars>>

NoLoop == [dir |-> "none", edits |-> <<>>, snapshots |-> <<>>, cb |-> FALSE]
NoCall == [op |-> "none", arg |-> 0, err |-> "none", chain |-> FALSE, after |-> -1]
NoMemo == <<>>
NoNotice == [op |-> "none", calls |-> <<>>]
NoTrace ==
  [on |-> FALSE, dir |-> "none", from |-> 0, total |-> 0, idxs |-> <<>>, faithful |-> TRUE,
   stops |-> 0, quiet |-> TRUE, ended |-> FALSE, err |-> "none"]
NoFind == [asked |-> FALSE, list |-> <<>>, target |-> 0, engine |-> <<>>, recorder |-> <<>>]
NoView == [asked |-> FALSE]
NoSleep == [gap |-> 0, speed |-> <<1, 1>>, ms |-> <<0, 1>>, asked |-> FALSE]
NoRun ==
  [iter |-> FALSE, stops |-> 0, carried |-> -1, paused |-> FALSE, resumed |-> FALSE,
   done |-> FALSE]

\* ------------------------------------------------------- VersionHistory

\* A snapshot stamped with a clock that runs backwards.
NewSnapshotBackdated(doc, es, ts) ==
  [timestamp |-> MaxTime - ts,
   yDocState |-> EncodeStateAsUpdate(doc),
   editIndex |-> Len(es) - 1,
   docLength |-> GetDocumentLength(doc)]

\* A snapshot that records the number of edits instead of the last index.
NewSnapshotCountingEdits(doc, es, ts) ==
  [timestamp |-> ts,
   yDocState |-> EncodeStateAsUpdate(doc),
   editIndex |-> Len(es),
   docLength |-> GetDocumentLength(doc)]

\* createSnapshot(doc), read at clock value ts, with the edit list es.
NewSnapshot(doc, es, ts) ==
  [timestamp |-> ts,
   yDocState |-> EncodeStateAsUpdate(doc),
   editIndex |-> Len(es) - 1,
   docLength |-> GetDocumentLength(doc)]

\* The longest content kept when the text before is not found in the text after.
ContentCap == 50

\* s.substring(a, b), positions counted from 0, for 0 <= a <= b.
Substring(s, a, b) == SubSeq(s, a + 1, IF b > Len(s) THEN Len(s) ELSE b)

\* hay.indexOf(needle): the first position of needle in hay, or -1.
IndexOf(hay, needle) ==
  LET at == {k \in 0 .. (Len(hay) - Len(needle)) :
               SubSeq(hay, k + 1, k + Len(needle)) = needle}
  IN  IF at = {} THEN -1 ELSE CHOOSE k \in at : \A j \in at : k <= j

\* The operation and content captureEdit derives from the two rendered texts;
\* content is <<>> (null) or <<text>>.
Classify(contentBefore, contentAfter) ==
  IF Len(contentAfter) > Len(contentBefore)
  THEN LET diff == Len(contentAfter) - Len(contentBefore)
           idx == IndexOf(contentAfter, contentBefore)
       IN  [operation |-> "insert",
            content |->
              IF idx >= 0
              THEN IF idx = 0
                   THEN <<Substring(contentAfter, Len(contentBefore), Len(contentAfter))>>
                   ELSE <<Substring(contentAfter, idx + Len(contentBefore),
                                    idx + Len(contentBefore) + diff)>>
              ELSE <<Substring(contentAfter, 0, ContentCap)>>]
  ELSE IF Len(contentAfter) < Len(contentBefore)
  THEN [operation |-> "delete", content |-> <<>>]
  ELSE IF contentAfter # contentBefore
  THEN [operation |-> "format", content |-> <<>>]
  ELSE [operation |-> "unknown", content |-> <<>>]

\* The document the update handler reads when it runs: doc.on("update") handlers
\* are called once the transaction has changed the document, so the handler's
\* doc is the document after the delta.
DocAtUpdate(before, after) == after

\* The edit record captureEdit builds for an update delivered at clock value ts,
\* doc being the tracked document as the handler reads it.  The client id is
\* the same in every id of one recorder and is left out.
NewEdit(update, ts, counter, doc) ==
  LET stateBefore == EncodeStateAsUpdate(doc)
      tempDocBefore == ApplyUpdate(EmptyDoc, stateBefore)
      tempDocAfter == ApplyUpdate(ApplyUpdate(EmptyDoc, stateBefore), update)
      c == Classify(GetText(tempDocBefore), GetText(tempDocAfter))
  IN  [id |-> <<ts, counter>>, timestamp |-> ts, operation |-> c.operation,
       content |-> c.content, yUpdate |-> update]

\* An edit list that takes its new edit at the front.
Unshift(es, edit) == <<edit>> \o es

\* this.edits.push(edit)
Push(es, edit) == Append(es, edit)

\* The updates a transaction on the live document can produce: the insertion of
\* a new atom, or the deletion of a visible one.
Deltas(doc, atom) ==
  {[ins |-> {atom}, del |-> {}]}
    \cup {[ins |-> {}, del |-> {x}] : x \in doc.ins \ doc.del}

\* A cadence counted before the new edit is in the list.
SnapshotDueBeforePush(es) == (Len(es) - 1) % SnapshotInterval = 0

\* this.edits.length % this.snapshotInterval === 0
SnapshotDue(es) == Len(es) % SnapshotInterval = 0

\* The callbacks that subscribe to the recorder.
HistoryListeners == {1, 2}

\* A notification that hands the listeners no snapshots.
NotifyWithoutSnapshots(listeners, es, snaps) ==
  LET order == SortedSeq(listeners)
  IN  [k \in 1 .. Len(order) |-> [listener |-> order[k], edits |-> es, snapshots |-> <<>>]]

\* notifyListeners(): the calls it makes, one for each listener in the set, each
\* with copies of the two lists.
NotifyListeners(listeners, es, snaps) ==
  LET order == SortedSeq(listeners)
  IN  [k \in 1 .. Len(order) |-> [listener |-> order[k], edits |-> es, snapshots |-> snaps]]

\* What the observer notes of a recorder operation op that made the calls.
Notice(op, calls) == [op |-> op, calls |-> calls]

\* An update handler that stays attached after the teardown.
HandlerNeverDetached(t) == t # "fresh"

\* Whether the update handler is attached to the document: between
\* doc.on("update", updateHandler) and doc.off("update", updateHandler).
HandlerAttached(t) == t = "active"

\* The recorder and the engine as their constructors leave them.
Constructed ==
  /\ now = 0
  /\ liveDoc = EmptyDoc
  /\ nextAtom = 0
  /\ tracking = "fresh"
  /\ edits = <<>>
  /\ snapshots = <<>>
  /\ editCounter = 0
  /\ updateListeners = {}
  /\ notified = NoNotice
  /\ cleared = FALSE
  /\ retired = {}
  /\ playbackDoc = <<>>
  /\ currentEditIndex = 0
  /\ isPlaying = FALSE
  /\ playbackSpeed = 1
  /\ eventListeners = {}
  /\ loop = NoLoop
  /\ call = NoCall
  /\ emitted = <<>>
  /\ memo = NoMemo
  /\ run = NoRun
  /\ slept = NoSleep
  /\ found = NoFind
  /\ viewed = NoView

Init == Constructed /\ watching = FALSE /\ played = NoTrace

\* The same, with the observer of the play loops switched on.
InitWatching == Constructed /\ watching = TRUE /\ played = NoTrace

\* The same as Init, with the observer of the playback events switched on.
InitTracing == Constructed /\ watching = FALSE /\ played = [NoTrace EXCEPT !.on = TRUE]

\* The observer of the playback events notes p, if it is switched on.
Played(p) == played' = IF played.on THEN p ELSE played

\* An engine call other than the play loop's own steps: it is noted when it
\* arrives while a play loop is suspended.
Intruded == Played(IF loop = NoLoop THEN played ELSE [played EXCEPT !.quiet = FALSE])

\* The observer of the play loops notes r, if it is switched on.
Observed(r) ==
  /\ run' = IF watching THEN r ELSE NoRun
  /\ watching' = watching
  /\ slept' = slept
  /\ found' = found
  /\ viewed' = viewed

\* What is remembered of a play loop lasts until the call after its return.
KeepRun == Observed(IF loop = NoLoop THEN NoRun ELSE run) /\ Intruded

\* A change of the log ends what the observers remember about the engine's calls.
ForgetCalls ==
  /\ call' = NoCall
  /\ emitted' = <<>>
  /\ memo' = NoMemo
  /\ Observed(IF loop = NoLoop THEN NoRun ELSE run)
  /\ played' = played

\* A start of tracking that only attaches the update handler.
InitializeWithoutSnapshot ==
  /\ tracking = "fresh"
  /\ tracking' = "active"
  /\ notified' = Notice("initialize", <<>>)
  /\ ForgetCalls
  /\ UNCHANGED <<now, liveDoc, nextAtom, edits, snapshots, editCounter, updateListeners,
                 cleared, retired, engVars>>

InitializeVersionTracking ==
  /\ tracking = "fresh"
  /\ \E dt \in 0 .. 1 :
       /\ now + dt <= MaxTime
       /\ now' = now + dt
       /\ snapshots' = Append(snapshots, NewSnapshot(liveDoc, edits, now + dt))
  /\ tracking' = "active"
  /\ notified' = Notice("initialize", <<>>)
  /\ ForgetCalls
  /\ UNCHANGED <<liveDoc, nextAtom, edits, editCounter, updateListeners, cleared, retired,
                 engVars>>

\* A transaction on the live document and the update handler's captureEdit; the
\* clock advances by dt before the edit's Date.now() and by ds before the
\* snapshot's.
CaptureEditIn(DT, DS) ==
  /\ HandlerAttached(tracking)
  /\ nextAtom < MaxDeltas
  /\ \E update \in Deltas(liveDoc, nextAtom), dt \in DT, ds \in DS :
       LET ts == now + dt
           doc == ApplyUpdate(liveDoc, update)
           es == Push(edits, NewEdit(update, ts, editCounter, DocAtUpdate(liveDoc, doc)))
       IN  /\ ts + ds <= MaxTime
           /\ liveDoc' = doc
           /\ edits' = es
           /\ IF SnapshotDue(es)
              THEN /\ snapshots' = Append(snapshots, NewSnapshot(doc, es, ts + ds))
                   /\ now' = ts + ds
              ELSE /\ ds = 0
                   /\ snapshots' = snapshots
                   /\ now' = ts
           /\ notified' = Notice("captureEdit",
                                 NotifyListeners(updateListeners, es, snapshots'))
  /\ nextAtom' = nextAtom + 1
  /\ editCounter' = editCounter + 1
  /\ ForgetCalls
  /\ UNCHANGED <<tracking, updateListeners, cleared, retired, engVars>>

CaptureEdit == CaptureEditIn(0 .. 1, 0 .. 1)

\* Edits recorded within one millisecond, as by a loop of inserts.
CaptureEditSameMs == CaptureEditIn({0}, {0})

\* A clearHistory that leaves the id counter where it is.
ClearHistoryKeepsCounter(observed) ==
  /\ edits' = <<>>
  /\ snapshots' = <<>>
  /\ notified' = Notice("clearHistory", NotifyListeners(updateListeners, <<>>, <<>>))
  /\ cleared' = (cleared \/ tracking = "active")
  /\ retired' = IF observed
                THEN retired \cup {edits[i].id : i \in 1 .. Len(edits)}
                ELSE retired
  /\ ForgetCalls
  /\ UNCHANGED <<now, liveDoc, nextAtom, tracking, editCounter, updateListeners, engVars>>

\* clearHistory(); the observer of retired ids takes note of the removed edits
\* when observed is set.
ClearHistoryIn(observed) ==
  /\ edits' = <<>>
  /\ snapshots' = <<>>
  /\ editCounter' = 0
  /\ notified' = Notice("clearHistory", NotifyListeners(updateListeners, edits', snapshots'))
  /\ cleared' = (cleared \/ tracking = "active")
  /\ retired' = IF observed
                THEN retired \cup {edits[i].id : i \in 1 .. Len(edits)}
                ELSE retired
  /\ ForgetCalls
  /\ UNCHANGED <<now, liveDoc, nextAtom, tracking, updateListeners, engVars>>

ClearHistory == ClearHistoryIn(FALSE)

\* clearHistory() with the ids of the removed edits noted.
ClearHistoryObserved == ClearHistoryIn(TRUE)

\* subscribe(listener) of the recorder.
SubscribeHistory ==
  /\ \E l \in HistoryListeners \ updateListeners :
       updateListeners' = updateListeners \cup {l}
  /\ notified' = Notice("subscribe", <<>>)
  /\ UNCHANGED <<now, liveDoc, nextAtom, tracking, edits, snapshots, editCounter, cleared,
                 retired, engVars, obsVars>>

\* The function subscribe returned, called for a subscribed listener.
UnsubscribeHistory ==
  /\ \E l \in updateListeners : updateListeners' = updateListeners \ {l}
  /\ notified' = Notice("unsubscribe", <<>>)
  /\ UNCHANGED <<now, liveDoc, nextAtom, tracking, edits, snapshots, editCounter, cleared,
                 retired, engVars, obsVars>>

\* The function initializeVersionTracking returned: doc.off("update", updateHandler).
Teardown ==
  /\ tracking = "active"
  /\ tracking' = "stopped"
  /\ notified' = Notice("teardown", <<>>)
  /\ UNCHANGED <<now, liveDoc, nextAtom, edits, snapshots, editCounter, updateListeners,
                 cleared, retired, engVars, obsVars>>

\* A transaction on the document while no update handler is attached to it.
UntrackedDelta ==
  /\ ~HandlerAttached(tracking)
  /\ nextAtom < MaxDeltas
  /\ \E update \in Deltas(liveDoc, nextAtom) : liveDoc' = ApplyUpdate(liveDoc, update)
  /\ nextAtom' = nextAtom + 1
  /\ notified' = Notice("delta", <<>>)
  /\ UNCHANGED <<now, tracking, edits, snapshots, editCounter, updateListeners, cleared,
                 retired, engVars, obsVars>>

\* ------------------------------------------------------- PlaybackEngine

\* --- the query views of the recorder

\* The longest log queried.
MaxLog == 3

\* User names as awareness reports them; "constructor" is also the name of a
\* property every JavaScript object inherits from Object.prototype.
UserNames == {"Ada", "Bo", "constructor"}

\* Names of properties that the object literal {} inherits.
ObjectPrototypeKeys == {"constructor", "toString", "valueOf", "hasOwnProperty"}

Operations == {"insert", "delete"}

\* The logs of at most MaxLog edits, stamped in the order of recording; the id
\* tells the edits apart.
QueryLogs ==
  LET shapes == UNION {[1 .. n -> Times \X UserNames \X Operations] : n \in 0 .. MaxLog}
      ordered == {f \in shapes : \A i \in 1 .. Len(f) - 1 : f[i][1] <= f[i + 1][1]}
  IN  {[j \in 1 .. Len(f) |->
          [id |-> j, timestamp |-> f[j][1], userName |-> f[j][2], operation |-> f[j][3]]]
       : f \in ordered}

\* this.edits.filter(edit => edit.timestamp >= startTime && edit.timestamp <= endTime)
RECURSIVE FindEditsByTimeRange(_, _, _)
FindEditsByTimeRange(es, startTime, endTime) ==
  IF es = <<>> THEN <<>>
  ELSE (IF Head(es).timestamp >= startTime /\ Head(es).timestamp <= endTime
        THEN <<Head(es)>> ELSE <<>>)
       \o FindEditsByTimeRange(Tail(es), startTime, endTime)

\* getEditTimeline(): the Map built by the for loop over what is left of the
\* edits, as a function from the keys set so far to their lists.
RECURSIVE TimelineFrom(_, _)
TimelineFrom(rest, timeline) ==
  IF rest = <<>> THEN timeline
  ELSE LET edit == Head(rest)
           had == IF edit.userName \in DOMAIN timeline THEN timeline[edit.userName] ELSE <<>>
       IN  TimelineFrom(Tail(rest),
                        [u \in DOMAIN timeline \cup {edit.userName} |->
                           IF u = edit.userName THEN Append(had, edit) ELSE timeline[u]])

GetEditTimeline(es) == TimelineFrom(es, <<>>)

\* A property value that is a number, and one that is a string.
Number(n) == [isNumber |-> TRUE, n |-> n]
Text == [isNumber |-> FALSE, n |-> 0]

\* counts[key] = (counts[key] || 0) + 1 on an object that started as {}: a key
\* the object does not own reads as the inherited property when there is one (a
\* function, which is truthy), and a function or a string + 1 is a string.
CountUp(counts, key) ==
  LET read == IF key \in DOMAIN counts THEN counts[key]
              ELSE IF key \in ObjectPrototypeKeys THEN Text
              ELSE Number(0)
  IN  [k \in DOMAIN counts \cup {key} |->
         IF k # key THEN counts[k]
         ELSE IF read.isNumber THEN Number(read.n + 1) ELSE Text]

\* The for loop of getStatistics over what is left of the edits.
RECURSIVE CountsFrom(_, _, _)
CountsFrom(rest, editsByUser, editsByType) ==
  IF rest = <<>> THEN [editsByUser |-> editsByUser, editsByType |-> editsByType]
  ELSE CountsFrom(Tail(rest), CountUp(editsByUser, Head(rest).userName),
                  CountUp(editsByType, Head(rest).operation))

GetStatistics(es, snaps) ==
  LET counts == CountsFrom(es, <<>>, <<>>)
  IN  [totalEdits |-> Len(es),
       totalSnapshots |-> Len(snaps),
       editsByUser |-> counts.editsByUser,
       editsByType |-> counts.editsByType,
       timeSpan |-> IF Len(es) > 0 THEN es[Len(es)].timestamp - es[1].timestamp ELSE 0]

\* The views of a log: findEditsByTimeRange(startTime, endTime),
\* getEditTimeline() and getStatistics(); one query is observed per behaviour.
Query ==
  /\ ~viewed.asked
  /\ \E es \in QueryLogs, startTime \in Times, endTime \in Times :
       viewed' = [asked |-> TRUE, log |-> es, startTime |-> startTime, endTime |-> endTime,
                  range |-> FindEditsByTimeRange(es, startTime, endTime),
                  timeline |-> GetEditTimeline(es),
                  statistics |-> GetStatistics(es, snapshots)]
  /\ UNCHANGED <<recVars, engVars, call, emitted, memo, run, watching, slept, played, found>>

\* edits[i] of the code, i counted from 0.
EditAt(es, i) == es[i + 1]

RECURSIVE FindFrom(_, _, _, _)
FindFrom(snaps, k, targetTime, closest) ==
  IF k > Len(snaps) THEN closest
  ELSE LET s == snaps[k]
           take == /\ s.timestamp <= targetTime
                   /\ (closest = <<>> \/ s.timestamp > closest[1].timestamp)
       IN  FindFrom(snaps, k + 1, targetTime, IF take THEN <<s>> ELSE closest)

\* A findClosestSnapshot that forgets the target: the latest snapshot of all.
FindLatestSnapshot(targetTime, snaps) ==
  FindFrom(snaps, 1, MaxTime + 1, <<>>)

\* findClosestSnapshot(targetTime, snapshots): <<>> (null) or <<snapshot>>.
FindClosestSnapshot(targetTime, snaps) ==
  FindFrom(snaps, 1, targetTime, <<>>)

\* A findClosestSnapshot that keeps the last, not the first, of the snapshots
\* that share the closest timestamp.
RECURSIVE FindLastFrom(_, _, _, _)
FindLastFrom(snaps, k, targetTime, closest) ==
  IF k > Len(snaps) THEN closest
  ELSE LET s == snaps[k]
           take == /\ s.timestamp <= targetTime
                   /\ (closest = <<>> \/ s.timestamp >= closest[1].timestamp)
       IN  FindLastFrom(snaps, k + 1, targetTime, IF take THEN <<s>> ELSE closest)

FindLastClosestSnapshot(targetTime, snaps) ==
  FindLastFrom(snaps, 1, targetTime, <<>>)

\* The for loop of VersionHistory.findClosestSnapshot over what is left of
\* this.snapshots.
RECURSIVE ClosestAmong(_, _, _)
ClosestAmong(rest, targetTime, closest) ==
  IF rest = <<>> THEN closest
  ELSE LET snapshot == Head(rest)
       IN  ClosestAmong(Tail(rest), targetTime,
                        IF snapshot.timestamp <= targetTime
                        THEN IF closest = <<>> \/ snapshot.timestamp > closest[1].timestamp
                             THEN <<snapshot>>
                             ELSE closest
                        ELSE closest)

\* VersionHistory.findClosestSnapshot(targetTime) with this.snapshots = snaps.
HistoryFindClosestSnapshot(targetTime, snaps) == ClosestAmong(snaps, targetTime, <<>>)

\* The longest snapshot list looked up.
MaxSnapshots == 3

\* A snapshot list with the given timestamps; the editIndex tells the entries apart.
SnapshotsAt(stamps) ==
  [j \in 1 .. Len(stamps) |->
     [timestamp |-> stamps[j], yDocState |-> EmptyDoc, editIndex |-> j - 2, docLength |-> 0]]

\* Snapshot lists in any order of timestamps, ties included.
SnapshotLists ==
  {SnapshotsAt(stamps) : stamps \in UNION {[1 .. n -> Times] : n \in 0 .. MaxSnapshots}}

\* A lookup of the snapshot closest to targetTime in a list, by the engine's
\* findClosestSnapshot and by the recorder's.
FindSnapshot ==
  /\ \E snaps \in SnapshotLists, targetTime \in Times :
       found' = [asked |-> TRUE, list |-> snaps, target |-> targetTime,
                 engine |-> FindClosestSnapshot(targetTime, snaps),
                 recorder |-> HistoryFindClosestSnapshot(targetTime, snaps)]
  /\ UNCHANGED <<recVars, engVars, call, emitted, memo, run, watching, slept, played,
                 viewed>>

\* A seek that keeps writing into the document it already has.
ReusePlaybackDoc(prev) == IF prev = <<>> THEN EmptyDoc ELSE prev[1]

\* this.playbackDoc = new Y.Doc()
FreshPlaybackDoc(prev) == EmptyDoc

\* A comparison that stops the replay one edit early: before, not at, the target.
StrictlyBefore(ts, targetTime) == ts < targetTime

\* !(edit.timestamp > targetTime)
NotAfter(ts, targetTime) == ts <= targetTime

\* The while loop of seekToTimestamp: [doc, idx] when it ends.
RECURSIVE ReplayUntil(_, _, _, _)
ReplayUntil(doc, idx, es, targetTime) ==
  IF idx < Len(es) /\ NotAfter(EditAt(es, idx).timestamp, targetTime)
  THEN ReplayUntil(ApplyUpdate(doc, EditAt(es, idx).yUpdate), idx + 1, es, targetTime)
  ELSE [doc |-> doc, idx |-> idx]

\* The document and index seekToTimestamp leaves, prev being the document before.
SeekResult(prev, targetTime, es, snaps) ==
  LET snapshot == FindClosestSnapshot(targetTime, snaps)
      fresh == FreshPlaybackDoc(prev)
  IN  IF snapshot # <<>>
      THEN ReplayUntil(ApplyUpdate(fresh, snapshot[1].yDocState),
                       snapshot[1].editIndex + 1, es, targetTime)
      ELSE ReplayUntil(fresh, 0, es, targetTime)

\* The inner while loop of stepBackward and playBackward.
RECURSIVE RebuildTo(_, _, _, _)
RebuildTo(doc, rebuildIndex, es, idx) ==
  IF rebuildIndex <= idx
  THEN RebuildTo(ApplyUpdate(doc, EditAt(es, rebuildIndex).yUpdate), rebuildIndex + 1, es, idx)
  ELSE doc

\* The document stepBackward and playBackward rebuild for index idx < Len(es).
RebuildDoc(idx, es, snaps) ==
  LET snapshot == FindClosestSnapshot(EditAt(es, idx).timestamp, snaps)
  IN  IF snapshot # <<>>
      THEN RebuildTo(ApplyUpdate(EmptyDoc, snapshot[1].yDocState),
                     snapshot[1].editIndex + 1, es, idx)
      ELSE RebuildTo(EmptyDoc, 0, es, idx)

\* A PlaybackEvent; edit is <<>> (absent) or <<edit>>.
Event(type, idx, total, ts, edit) ==
  [type |-> type, currentEditIndex |-> idx, totalEdits |-> total,
   currentTimestamp |-> ts, edit |-> edit]

\* emitEvent(event): one delivery to every listener subscribed now, with the
\* playback document doc.
Emit(event, doc, listeners) == [ev |-> event, doc |-> doc, to |-> listeners]

Called(op, arg, err) ==
  [op |-> op, arg |-> arg, err |-> err, chain |-> FALSE, after |-> -1]

\* Whether a call made right after the call c continues a replay from the start.
Chained(c) == c.chain /\ c.op \in {"seekToStart", "stepForward", "playForward", "wake"}

\* What a seek to targetTime does to the engine: seekToTimestamp's body.
SeekTo(targetTime) ==
  LET r == SeekResult(playbackDoc, targetTime, edits, snapshots)
  IN  /\ playbackDoc' = <<r.doc>>
      /\ currentEditIndex' = r.idx
      /\ emitted' = <<Emit(Event("seek", r.idx, Len(edits), targetTime, <<>>),
                           <<r.doc>>, eventListeners)>>

SeekToTimestamp ==
  \E targetTime \in Times :
    /\ SeekTo(targetTime)
    /\ call' = Called("seekToTimestamp", targetTime, "none")
    /\ memo' = IF /\ memo # NoMemo
                  /\ memo[1].t = targetTime
                  /\ currentEditIndex # memo[1].idx
                  /\ isPlaying
                  /\ playbackSpeed # 1
               THEN <<[memo[1] EXCEPT !.again = TRUE]>>
               ELSE memo
    /\ KeepRun
    /\ UNCHANGED <<recVars, isPlaying, playbackSpeed, eventListeners, loop>>

\* Observer: remember what the seekToTimestamp call just made has produced; it
\* notes a later call with the same target that starts from another index, while
\* playing, at another speed.
Remember ==
  /\ memo = NoMemo
  /\ call.op = "seekToTimestamp"
  /\ memo' = <<[t |-> call.arg, text |-> GetText(playbackDoc[1]),
                idx |-> currentEditIndex, again |-> FALSE]>>
  /\ KeepRun
  /\ UNCHANGED <<recVars, engVars, call, emitted>>

\* A bounds check that lets the index one past the end through.
IndexValidOffByOne(targetIndex, es) == targetIndex >= 0 /\ targetIndex <= Len(es)

\* !(targetIndex < 0 || targetIndex >= edits.length)
IndexValid(targetIndex, es) == targetIndex >= 0 /\ targetIndex < Len(es)

SeekToEditIndex ==
  \E targetIndex \in -1 .. MaxDeltas :
    /\ IF ~IndexValid(targetIndex, edits)
       THEN /\ call' = Called("seekToEditIndex", targetIndex, "InvalidIndex")
            /\ emitted' = <<>>
            /\ UNCHANGED <<playbackDoc, currentEditIndex>>
       ELSE IF targetIndex < 0 \/ targetIndex >= Len(edits)
       THEN \* edits[targetIndex] is undefined: reading its timestamp throws
            /\ call' = Called("seekToEditIndex", targetIndex, "TypeError")
            /\ emitted' = <<>>
            /\ UNCHANGED <<playbackDoc, currentEditIndex>>
       ELSE /\ SeekTo(EditAt(edits, targetIndex).timestamp)
            /\ call' = Called("seekToEditIndex", targetIndex, "none")
    /\ KeepRun
    /\ UNCHANGED <<recVars, isPlaying, playbackSpeed, eventListeners, loop, memo>>

\* A seekToStart that keeps the document a previous call has materialized.
SeekToStartReusingDoc ==
  /\ playbackDoc' = IF playbackDoc = <<>> THEN <<EmptyDoc>> ELSE playbackDoc
  /\ currentEditIndex' = 0
  /\ emitted' = <<Emit(Event("seek", 0, Len(edits),
                             IF Len(edits) > 0 THEN EditAt(edits, 0).timestamp ELSE now,
                             <<>>),
                       playbackDoc', eventListeners)>>
  /\ call' = [Called("seekToStart", 0, "none") EXCEPT !.chain = TRUE]
  /\ KeepRun
  /\ UNCHANGED <<recVars, isPlaying, playbackSpeed, eventListeners, loop, memo>>

SeekToStart ==
  /\ playbackDoc' = <<EmptyDoc>>
  /\ currentEditIndex' = 0
  /\ emitted' = <<Emit(Event("seek", 0, Len(edits),
                             IF Len(edits) > 0 THEN EditAt(edits, 0).timestamp ELSE now,
                             <<>>),
                       <<EmptyDoc>>, eventListeners)>>
  /\ call' = [Called("seekToStart", 0, "none") EXCEPT !.chain = TRUE]
  /\ KeepRun
  /\ UNCHANGED <<recVars, isPlaying, playbackSpeed, eventListeners, loop, memo>>

SeekToEnd ==
  /\ IF Len(edits) = 0
     THEN /\ playbackDoc' = <<EmptyDoc>>
          /\ currentEditIndex' = 0
          /\ emitted' = <<>>
     ELSE SeekTo(EditAt(edits, Len(edits) - 1).timestamp)
  /\ call' = Called("seekToEnd", 0, "none")
  /\ KeepRun
  /\ UNCHANGED <<recVars, isPlaying, playbackSpeed, eventListeners, loop, memo>>

StepForward ==
  LET doc == IF playbackDoc = <<>> THEN EmptyDoc ELSE playbackDoc[1]
  IN  /\ IF currentEditIndex < Len(edits)
         THEN LET edit == EditAt(edits, currentEditIndex)
                  d == <<ApplyUpdate(doc, edit.yUpdate)>>
              IN  /\ playbackDoc' = d
                  /\ emitted' = <<Emit(Event("playback", currentEditIndex, Len(edits),
                                             edit.timestamp, <<edit>>),
                                       d, eventListeners)>>
                  /\ currentEditIndex' = currentEditIndex + 1
         ELSE /\ playbackDoc' = <<doc>>
              /\ emitted' = <<>>
              /\ currentEditIndex' = currentEditIndex
      /\ call' = [Called("stepForward", 0, "none") EXCEPT
                    !.chain = Chained(call),
                    !.after = IF call.op = "seekToEditIndex" /\ call.err = "none"
                              THEN call.arg ELSE -1]
      /\ KeepRun
      /\ UNCHANGED <<recVars, isPlaying, playbackSpeed, eventListeners, loop, memo>>

\* A stepBackward without its guard for index 0: it decrements the index and
\* fails on edits[-1].
StepBackwardUnguarded ==
  /\ IF currentEditIndex - 1 < 0 \/ currentEditIndex - 1 >= Len(edits)
     THEN /\ currentEditIndex' = currentEditIndex - 1
          /\ call' = Called("stepBackward", 0, "TypeError")
          /\ emitted' = <<>>
          /\ UNCHANGED playbackDoc
     ELSE LET idx == currentEditIndex - 1
              edit == EditAt(edits, idx)
              d == <<RebuildDoc(idx, edits, snapshots)>>
          IN  /\ currentEditIndex' = idx
              /\ playbackDoc' = d
              /\ emitted' = <<Emit(Event("playback", idx, Len(edits), edit.timestamp,
                                         <<edit>>),
                                   d, eventListeners)>>
              /\ call' = Called("stepBackward", 0, "none")
  /\ KeepRun
  /\ UNCHANGED <<recVars, isPlaying, playbackSpeed, eventListeners, loop, memo>>

StepBackward ==
  /\ IF currentEditIndex = 0
     THEN /\ call' = Called("stepBackward", 0, "none")
          /\ emitted' = <<>>
          /\ UNCHANGED <<playbackDoc, currentEditIndex>>
     ELSE IF currentEditIndex - 1 >= Len(edits)
     THEN \* edits[this.currentEditIndex] is undefined: reading its timestamp
          \* throws, after the index has been decremented
          /\ currentEditIndex' = currentEditIndex - 1
          /\ call' = Called("stepBackward", 0, "TypeError")
          /\ emitted' = <<>>
          /\ UNCHANGED playbackDoc
     ELSE LET idx == currentEditIndex - 1
              edit == EditAt(edits, idx)
              d == <<RebuildDoc(idx, edits, snapshots)>>
          IN  /\ currentEditIndex' = idx
              /\ playbackDoc' = d
              /\ emitted' = <<Emit(Event("playback", idx, Len(edits), edit.timestamp,
                                         <<edit>>),
                                   d, eventListeners)>>
              /\ call' = Called("stepBackward", 0, "none")
  /\ KeepRun
  /\ UNCHANGED <<recVars, isPlaying, playbackSpeed, eventListeners, loop, memo>>

\* The count of a run's stop events, as far as it matters: none, one, more.
Capped(n) == IF n > 2 THEN 2 ELSE n

Pause ==
  /\ isPlaying' = FALSE
  /\ emitted' = <<Emit(Event("stop", currentEditIndex, 0, now, <<>>),
                       playbackDoc, eventListeners)>>
  /\ call' = Called("pause", 0, "none")
  /\ Observed(IF loop = NoLoop THEN NoRun
              ELSE [run EXCEPT !.stops = Capped(run.stops + 1),
                               !.carried = currentEditIndex,
                               !.paused = TRUE,
                               !.resumed = FALSE])
  /\ Intruded
  /\ UNCHANGED <<recVars, playbackDoc, currentEditIndex, playbackSpeed, eventListeners,
                 loop, memo>>

\* A resume that sets the playing flag only when a play loop is suspended.
ResumeOnlyLoop ==
  /\ isPlaying' = (loop # NoLoop)
  /\ emitted' = <<>>
  /\ call' = Called("resume", 0, "none")
  /\ Observed(IF loop = NoLoop THEN NoRun ELSE [run EXCEPT !.resumed = run.paused])
  /\ Intruded
  /\ UNCHANGED <<recVars, playbackDoc, currentEditIndex, playbackSpeed, eventListeners,
                 loop, memo>>

Resume ==
  /\ isPlaying' = TRUE
  /\ emitted' = <<>>
  /\ call' = Called("resume", 0, "none")
  /\ Observed(IF loop = NoLoop THEN NoRun ELSE [run EXCEPT !.resumed = run.paused])
  /\ Intruded
  /\ UNCHANGED <<recVars, playbackDoc, currentEditIndex, playbackSpeed, eventListeners,
                 loop, memo>>

\* A speed check that lets 0 through.
SpeedValidOrZero(speed) == speed >= 0

\* !(speed <= 0)
SpeedValid(speed) == speed > 0

SetPlaybackSpeed ==
  \E speed \in Speeds :
    /\ IF ~SpeedValid(speed)
       THEN /\ call' = Called("setPlaybackSpeed", speed, "InvalidSpeed")
            /\ emitted' = <<>>
            /\ UNCHANGED playbackSpeed
       ELSE /\ playbackSpeed' = speed
            /\ emitted' = <<Emit(Event("speed-change", currentEditIndex, 0, now, <<>>),
                                 playbackDoc, eventListeners)>>
            /\ call' = Called("setPlaybackSpeed", speed, "none")
    /\ KeepRun
    /\ UNCHANGED <<recVars, playbackDoc, currentEditIndex, isPlaying, eventListeners,
                   loop, memo>>

\* Observer: 1 when reset finds a document, an index above 0, the playing
\* flag set and a speed other than 1, all at once; 0 otherwise.
FarFromIdle ==
  IF playbackDoc # <<>> /\ currentEditIndex > 0 /\ isPlaying /\ playbackSpeed # 1
  THEN 1 ELSE 0

\* A reset that leaves the speed as it is.
ResetKeepingSpeed ==
  /\ playbackDoc' = <<>>
  /\ currentEditIndex' = 0
  /\ isPlaying' = FALSE
  /\ emitted' = <<>>
  /\ call' = Called("reset", FarFromIdle, "none")
  /\ KeepRun
  /\ UNCHANGED <<recVars, playbackSpeed, eventListeners, loop, memo>>

Reset ==
  /\ playbackDoc' = <<>>
  /\ currentEditIndex' = 0
  /\ isPlaying' = FALSE
  /\ playbackSpeed' = 1
  /\ emitted' = <<>>
  /\ call' = Called("reset", FarFromIdle, "none")
  /\ KeepRun
  /\ UNCHANGED <<recVars, eventListeners, loop, memo>>

Subscribe ==
  \E l \in Listeners \ eventListeners :
    /\ eventListeners' = eventListeners \cup {l}
    /\ emitted' = <<>>
    /\ call' = Called("subscribe", l, "none")
    /\ KeepRun
    /\ UNCHANGED <<recVars, playbackDoc, currentEditIndex, isPlaying, playbackSpeed,
                   loop, memo>>

Unsubscribe ==
  \E l \in eventListeners :
    /\ eventListeners' = eventListeners \ {l}
    /\ emitted' = <<>>
    /\ call' = Called("unsubscribe", l, "none")
    /\ KeepRun
    /\ UNCHANGED <<recVars, playbackDoc, currentEditIndex, isPlaying, playbackSpeed,
                   loop, memo>>

\* The gaps between the timestamps of two consecutive edits, in ms.
Gaps == {0, 1, 250, 500, 1000, 1999, 2000, 2001, 4000, 8000, 9999, 10000, 10001, 20000}

\* Playback speeds as fractions <<numerator, denominator>>; the slider of
\* VersionPlayback offers 0.25 to 4, setPlaybackSpeed accepts every speed > 0.
PacingSpeeds ==
  {<<1, 4>>, <<1, 2>>, <<1, 1>>, <<3, 2>>, <<2, 1>>, <<4, 1>>, <<5, 1>>, <<6, 1>>,
   <<8, 1>>, <<10, 1>>}

\* The longest wait between two playback events, in ms.
DelayCap == 2000

\* A wait that is the scaled gap, however long.
SleepUncapped(gap, speed) == <<gap * speed[2], speed[1]>>

\* Math.min(delay, 2000) with delay = gap / speed, as a fraction of ms.
SleepFor(gap, speed) ==
  LET delay == <<gap * speed[2], speed[1]>>
  IN  IF delay[1] < DelayCap * delay[2] THEN delay ELSE <<DelayCap, 1>>

\* playForward between the playback events of two consecutive edits gap ms
\* apart: the delay it computes from the speed read now, and the sleep it asks for.
SleepBetweenEdits ==
  /\ \E gap \in Gaps, speed \in PacingSpeeds :
       slept' = [gap |-> gap, speed |-> speed, ms |-> SleepFor(gap, speed), asked |-> TRUE]
  /\ UNCHANGED <<recVars, engVars, call, emitted, memo, run, watching, played, found,
                 viewed>>

\* localOnUpdate: the onUpdate callback (receiver 0) when one was given, else
\* emitEvent to the listeners subscribed now.
Receivers(cb, listeners) == IF cb THEN {0} ELSE listeners

\* The terminal event of a play loop; onUpdate is called without a document.
StopEvent(idx, es, ts, doc, cb, listeners) ==
  Emit(Event("stop", idx, Len(es), ts, <<>>),
       IF cb THEN <<>> ELSE doc, Receivers(cb, listeners))

Outcome(doc, idx, playing, out, suspended, err) ==
  [doc |-> doc, idx |-> idx, playing |-> playing, out |-> out,
   suspended |-> suspended, err |-> err]

\* A loop condition that no longer looks at the playing flag.
ContinuesRegardless(playing, more) == more

\* this.isPlaying && (more edits in the loop's direction)
Continues(playing, more) == playing /\ more

\* playForward from its loop condition to its next sleep() or its return.
FwdRun(doc, idx, playing, es, cb, listeners) ==
  LET lastTs == IF Len(es) > 0 THEN EditAt(es, Len(es) - 1).timestamp ELSE now
  IN  IF Continues(playing, idx < Len(es))
      THEN IF doc = <<>>
           THEN \* Y.applyUpdate(null, ...) throws
                Outcome(doc, idx, playing, <<>>, FALSE, "TypeError")
           ELSE LET edit == EditAt(es, idx)
                    d == <<ApplyUpdate(doc[1], edit.yUpdate)>>
                    pb == Emit(Event("playback", idx, Len(es), edit.timestamp, <<edit>>),
                               d, Receivers(cb, listeners))
                IN  IF idx + 1 < Len(es)
                    THEN Outcome(d, idx, TRUE, <<pb>>, TRUE, "none")
                    ELSE Outcome(d, idx + 1, FALSE,
                                 <<pb, StopEvent(idx + 1, es, lastTs, d, cb, listeners)>>,
                                 FALSE, "none")
      ELSE Outcome(doc, idx, FALSE,
                   IF playing THEN <<StopEvent(idx, es, lastTs, doc, cb, listeners)>>
                   ELSE <<>>,
                   FALSE, "none")

\* playBackward from its loop condition to its next sleep() or its return.
BwdRun(doc, idx, playing, es, snaps, cb, listeners) ==
  IF Continues(playing, idx > 0)
  THEN IF idx - 1 >= Len(es)
       THEN \* edits[this.currentEditIndex] is undefined
            Outcome(doc, idx - 1, playing, <<>>, FALSE, "TypeError")
       ELSE LET i == idx - 1
                edit == EditAt(es, i)
                d == <<RebuildDoc(i, es, snaps)>>
                pb == Emit(Event("playback", i, Len(es), edit.timestamp, <<edit>>),
                           d, Receivers(cb, listeners))
            IN  IF i - 1 >= 0
                THEN Outcome(d, i, TRUE, <<pb>>, TRUE, "none")
                ELSE Outcome(d, i, FALSE,
                             <<pb, StopEvent(i, es, now, d, cb, listeners)>>,
                             FALSE, "none")
  ELSE Outcome(doc, idx, FALSE,
               IF playing
               THEN <<StopEvent(idx, es,
                                IF idx > 0 /\ idx < Len(es)
                                THEN EditAt(es, idx).timestamp ELSE now,
                                doc, cb, listeners)>>
               ELSE <<>>,
               FALSE, "none")

\* What is remembered of a play loop after it ran on, with outcome r, from what
\* was remembered before.
RunAfter(prev, r) ==
  LET stops == {k \in 1 .. Len(r.out) : r.out[k].ev.type = "stop"}
      plays == {k \in 1 .. Len(r.out) : r.out[k].ev.type = "playback"}
  IN  [iter |-> prev.iter \/ plays # {},
       stops |-> Capped(prev.stops + Cardinality(stops)),
       carried |-> IF stops = {} THEN prev.carried
                   ELSE r.out[Len(r.out)].ev.currentEditIndex,
       paused |-> prev.paused,
       resumed |-> prev.resumed,
       done |-> ~r.suspended /\ r.err = "none"]

\* A play call of direction dir about to start at index from on a log of total edits.
TraceStart(dir, from, total) ==
  [on |-> TRUE, dir |-> dir, from |-> from, total |-> total, idxs |-> <<>>,
   faithful |-> TRUE, stops |-> 0, quiet |-> TRUE, ended |-> FALSE, err |-> "none"]

\* The indices a sequence of events carries in its "playback" events, in order.
RECURSIVE PlaybackIndices(_)
PlaybackIndices(out) ==
  IF out = <<>> THEN <<>>
  ELSE (IF out[1].ev.type = "playback" THEN <<out[1].ev.currentEditIndex>> ELSE <<>>)
       \o PlaybackIndices(Tail(out))

\* What is noted of a play call after its loop ran on over the log es with
\* outcome r: the indices of its playback events, whether each event carried the
\* edit of the log at its index, its stop events, and whether it has returned.
TraceAfter(prev, r, es) ==
  [prev EXCEPT
     !.idxs = @ \o PlaybackIndices(r.out),
     !.faithful = @ /\ \A k \in 1 .. Len(r.out) :
                          r.out[k].ev.type = "playback" =>
                            /\ r.out[k].ev.currentEditIndex < Len(es)
                            /\ r.out[k].ev.edit = <<EditAt(es, r.out[k].ev.currentEditIndex)>>,
     !.stops = Capped(@ + Cardinality({k \in 1 .. Len(r.out) : r.out[k].ev.type = "stop"})),
     !.ended = ~r.suspended,
     !.err = r.err]

\* The engine after a run r of a play loop of direction dir over the log es, snaps.
Ran(r, dir, es, snaps, cb) ==
  /\ playbackDoc' = r.doc
  /\ currentEditIndex' = r.idx
  /\ isPlaying' = r.playing
  /\ emitted' = r.out
  /\ loop' = IF r.suspended
             THEN [dir |-> dir, edits |-> es, snapshots |-> snaps, cb |-> cb]
             ELSE NoLoop

PlayForward ==
  /\ loop = NoLoop
  /\ \E cb \in BOOLEAN :
       LET doc == IF playbackDoc = <<>> THEN <<EmptyDoc>> ELSE playbackDoc
           idx == IF playbackDoc = <<>> THEN 0 ELSE currentEditIndex
           r == FwdRun(doc, idx, TRUE, edits, cb, eventListeners)
       IN  /\ Ran(r, "fwd", edits, snapshots, cb)
           /\ Observed(RunAfter(NoRun, r))
           /\ Played(TraceAfter(TraceStart("fwd", currentEditIndex, Len(edits)), r, edits))
           /\ call' = [Called("playForward", 0, r.err) EXCEPT !.chain = Chained(call)]
  /\ UNCHANGED <<recVars, playbackSpeed, eventListeners, memo>>

PlayBackward ==
  /\ loop = NoLoop
  /\ \E cb \in BOOLEAN :
       IF playbackDoc = <<>> \/ currentEditIndex = 0
       THEN /\ call' = Called("playBackward", 0, "none")
            /\ emitted' = <<>>
            /\ Observed(NoRun)
            /\ Played([TraceStart("bwd", currentEditIndex, Len(edits)) EXCEPT !.ended = TRUE])
            /\ UNCHANGED <<playbackDoc, currentEditIndex, isPlaying, loop>>
       ELSE LET r == BwdRun(playbackDoc, currentEditIndex, TRUE, edits, snapshots, cb,
                            eventListeners)
            IN  /\ Ran(r, "bwd", edits, snapshots, cb)
                /\ Observed(RunAfter(NoRun, r))
                /\ Played(TraceAfter(TraceStart("bwd", currentEditIndex, Len(edits)), r,
                                     edits))
                /\ call' = Called("playBackward", 0, r.err)
  /\ UNCHANGED <<recVars, playbackSpeed, eventListeners, memo>>

\* The sleep() of the suspended play loop elapses and the loop runs on.
Wake ==
  /\ loop # NoLoop
  /\ LET r == IF loop.dir = "fwd"
              THEN FwdRun(playbackDoc, currentEditIndex + 1, isPlaying, loop.edits,
                          loop.cb, eventListeners)
              ELSE BwdRun(playbackDoc, currentEditIndex, isPlaying, loop.edits,
                          loop.snapshots, loop.cb, eventListeners)
     IN  /\ Ran(r, loop.dir, loop.edits, loop.snapshots, loop.cb)
         /\ Observed(RunAfter(run, r))
         /\ Played(TraceAfter(played, r, loop.edits))
         /\ call' = [Called("wake", 0, r.err) EXCEPT
                       !.chain = loop.dir = "fwd" /\ Chained(call)]
  /\ UNCHANGED <<recVars, playbackSpeed, eventListeners, memo>>

RecorderStep ==
  \/ InitializeVersionTracking
  \/ CaptureEdit
  \/ ClearHistory

\* The recorder and the engine's seeks and steps.
Next ==
  \/ RecorderStep
  \/ SeekToTimestamp
  \/ SeekToEditIndex
  \/ SeekToStart
  \/ SeekToEnd
  \/ StepForward
  \/ StepBackward
  \/ Reset

Spec == Init /\ [][Next]_vars

\* Seeks to a timestamp from engine states that differ in index, document,
\* playing flag and speed.
NextDet ==
  \/ RecorderStep
  \/ SeekToTimestamp
  \/ Remember
  \/ StepForward
  \/ Resume
  \/ SetPlaybackSpeed
  \/ Reset

SpecDet == Init /\ [][NextDet]_vars

\* The recorder when the clock does not advance between its edits.
RecorderStepSameMs ==
  \/ InitializeVersionTracking
  \/ CaptureEditSameMs
  \/ ClearHistory

\* The engine's validated calls, with listeners subscribed and the playing flag,
\* speed and index varying.
NextControl ==
  \/ RecorderStepSameMs
  \/ SeekToEditIndex
  \/ StepBackward
  \/ Pause
  \/ Resume
  \/ SetPlaybackSpeed
  \/ Subscribe
  \/ Unsubscribe
  \/ Reset

SpecControl == Init /\ [][NextControl]_vars

\* The waits of playForward over gaps and speeds.
NextPacing ==
  \/ SleepBetweenEdits

SpecPacing == Init /\ [][NextPacing]_vars

\* Every call of the engine, the play loops included, on a log that changes
\* between the calls.
NextCalls ==
  \/ RecorderStepSameMs
  \/ SeekToTimestamp
  \/ SeekToEditIndex
  \/ SeekToStart
  \/ SeekToEnd
  \/ StepForward
  \/ StepBackward
  \/ PlayForward
  \/ PlayBackward
  \/ Wake
  \/ Pause
  \/ Resume
  \/ SetPlaybackSpeed
  \/ Reset

SpecCalls == Init /\ [][NextCalls]_vars

\* The recorder alone, with the ids of the edits it removes noted.
NextRecorder ==
  \/ InitializeVersionTracking
  \/ CaptureEdit
  \/ ClearHistoryObserved

SpecRecorder == Init /\ [][NextRecorder]_vars

\* The recorder with its listeners, its teardown and the document changing
\* while it is not tracked.
NextListeners ==
  \/ InitializeVersionTracking
  \/ CaptureEditSameMs
  \/ ClearHistoryObserved
  \/ SubscribeHistory
  \/ UnsubscribeHistory
  \/ Teardown
  \/ UntrackedDelta

SpecListeners == Init /\ [][NextListeners]_vars

\* The play loops with pause, resume and reset arriving while a loop waits.
NextPlay ==
  \/ InitializeVersionTracking
  \/ CaptureEditSameMs
  \/ SeekToStart
  \/ SeekToEnd
  \/ PlayForward
  \/ PlayBackward
  \/ Wake
  \/ Pause
  \/ Resume
  \/ Reset
  \/ Subscribe

SpecPlay == InitWatching /\ [][NextPlay]_vars

\* A step of the recorder or a seek, step or reset of the engine, made when no
\* play loop is suspended.
BetweenPlays ==
  /\ loop = NoLoop
  /\ \/ RecorderStep
     \/ SeekToTimestamp
     \/ StepBackward
     \/ Reset

\* The query views over logs and time ranges.
NextQuery ==
  \/ Query

SpecQuery == Init /\ [][NextQuery]_vars

\* The snapshot lookups over lists and targets.
NextFind ==
  \/ FindSnapshot

SpecFind == Init /\ [][NextFind]_vars

\* Play calls that nothing interleaves with: every other call waits for the
\* play loop to return, and every sleep() of the loop elapses.
NextRun ==
  \/ BetweenPlays
  \/ PlayForward
  \/ PlayBackward
  \/ Wake

SpecRun == InitTracing /\ [][NextRun]_vars /\ WF_vars(Wake)

\* ---------------------------------------------------------------- claims

\* The document that holds exactly the edits of es at the positions in I.
DocOf(es, I) ==
  [ins |-> UNION {es[i].yUpdate.ins : i \in I},
   del |-> UNION {es[i].yUpdate.del : i \in I}]

\* The positions of the edits of es recorded at or before time t.
UpTo(es, t) == {i \in 1 .. Len(es) : es[i].timestamp <= t}

\* Whether the delta of edit e is part of the document doc.
Reflected(e, doc) ==
  /\ e.yUpdate.ins \subseteq doc.ins
  /\ e.yUpdate.del \subseteq doc.del

\* C1: after seekToTimestamp(t) the document's content is that of a replay, from
\* an empty document and without any snapshot, of all edits with timestamp <= t.
C1_SeekEqualsFullReplay ==
  call.op = "seekToTimestamp" =>
    GetText(playbackDoc[1]) = GetText(DocOf(edits, UpTo(edits, call.arg)))

\* C2: a successful seekToEditIndex(i) leaves exactly the edits 0..i applied and
\* the current index at i + 1.
C2_SeekToIndexLandsOnIndex ==
  (call.op = "seekToEditIndex" /\ call.err = "none") =>
    /\ currentEditIndex = call.arg + 1
    /\ GetText(playbackDoc[1]) = GetText(DocOf(edits, 1 .. (call.arg + 1)))

\* C3: for every stored snapshot, replaying the edits after its editIndex on top of
\* its state gives the content of replaying the log from empty to the same point;
\* in particular its state is that of edits[0..editIndex] applied to an empty
\* document.
C3_SnapshotsMatchLog ==
  \A k \in 1 .. Len(snapshots) :
    LET s == snapshots[k]
    IN  \A m \in (s.editIndex + 1) .. Len(edits) :
          GetText(ApplyUpdate(ApplyUpdate(EmptyDoc, s.yDocState),
                              DocOf(edits, (s.editIndex + 2) .. m)))
            = GetText(DocOf(edits, 1 .. m))

\* C4: seekToStart followed by stepForward up to the end of the log yields the
\* content of the live document the recorder tracks.
C4_FullReplayIsLive ==
  (call.chain /\ currentEditIndex = Len(edits)) =>
    GetText(playbackDoc[1]) = GetText(liveDoc)

\* C5: two calls of seekToTimestamp with the same target on the same log yield
\* the same content and the same current index, whatever the engine's state was
\* before each call.
C5_SeekDeterministic ==
  (call.op = "seekToTimestamp" /\ memo # NoMemo /\ memo[1].t = call.arg) =>
    /\ GetText(playbackDoc[1]) = memo[1].text
    /\ currentEditIndex = memo[1].idx

\* A second seek to the remembered target, started from another index while
\* playing at another speed, on a log with content.
C5_Witness ==
  /\ call.op = "seekToTimestamp"
  /\ memo # NoMemo
  /\ memo[1].t = call.arg
  /\ memo[1].again
  /\ memo[1].text # <<>>

\* C6: after seekToTimestamp(t) the current index is the number of edits with
\* timestamp <= t, and no edit with timestamp > t is reflected in the document.
C6_SeekIndexIsCount ==
  call.op = "seekToTimestamp" =>
    /\ currentEditIndex = Cardinality(UpTo(edits, call.arg))
    /\ \A i \in 1 .. Len(edits) :
         edits[i].timestamp > call.arg => ~Reflected(edits[i], playbackDoc[1])

\* A seek that started from a snapshot taken after recorded edits and stopped
\* before a later edit.
C6_Witness ==
  /\ call.op = "seekToTimestamp"
  /\ LET snapshot == FindClosestSnapshot(call.arg, snapshots)
     IN  snapshot # <<>> /\ snapshot[1].editIndex >= 0
  /\ \E i \in 1 .. Len(edits) : edits[i].timestamp > call.arg

\* C7, as stated: seekToEditIndex(i) followed by stepForward() leaves the current
\* index at i + 1, and the step applies the delta of edit i.
C7_StepAfterSeekAppliesSeeked ==
  (call.op = "stepForward" /\ call.after >= 0) =>
    /\ currentEditIndex = call.after + 1
    /\ Len(emitted) = 1
    /\ emitted[1].ev.edit = <<EditAt(edits, call.after)>>

\* C7, amended: seekToEditIndex(i) leaves the index at c, the number of edits with
\* timestamp <= edits[i].timestamp (at least i + 1); the following stepForward()
\* applies the delta of edit c and leaves the index at c + 1 when c < edits.length,
\* and applies nothing and leaves the index at c otherwise.
C7_StepAfterSeekAppliesNext ==
  (call.op = "stepForward" /\ call.after >= 0) =>
    LET c == Cardinality(UpTo(edits, EditAt(edits, call.after).timestamp))
    IN  /\ c >= call.after + 1
        /\ IF c < Len(edits)
           THEN /\ currentEditIndex = c + 1
                /\ Len(emitted) = 1
                /\ emitted[1].ev.type = "playback"
                /\ emitted[1].ev.currentEditIndex = c
                /\ emitted[1].ev.edit = <<EditAt(edits, c)>>
                /\ Reflected(EditAt(edits, c), playbackDoc[1])
           ELSE /\ currentEditIndex = c
                /\ emitted = <<>>

\* A stepForward right after a successful seekToEditIndex(i) that had an edit to
\* apply.
C7_Witness ==
  /\ call.op = "stepForward"
  /\ call.after >= 0
  /\ currentEditIndex > call.after + 1
  /\ emitted # <<>>

\* C8: seekToEditIndex(i) with i < 0 or i >= edits.length fails with the
\* invalid-index error, and leaves the current index, the document and the
\* playing flag unchanged and emits no event.
C8_InvalidIndexFails ==
  [][(call'.op = "seekToEditIndex"
        /\ (call'.arg < 0 \/ call'.arg >= Len(edits))) =>
       /\ call'.err = "InvalidIndex"
       /\ UNCHANGED <<currentEditIndex, playbackDoc, isPlaying>>
       /\ emitted' = <<>>]_vars

\* A failed seekToEditIndex on a non-empty log, with a document materialized past
\* index 0, the playing flag set and a listener subscribed.
C8_Witness ==
  /\ call.op = "seekToEditIndex"
  /\ call.err = "InvalidIndex"
  /\ Len(edits) > 0
  /\ playbackDoc # <<>>
  /\ currentEditIndex > 0
  /\ isPlaying
  /\ eventListeners # {}

\* C9: setPlaybackSpeed(s) with s <= 0 fails, leaves the speed unchanged and emits
\* no event; with s > 0 it sets the speed to s and emits exactly one speed-change
\* event, to every subscriber.
C9_SpeedValidated ==
  [][call'.op = "setPlaybackSpeed" =>
       IF call'.arg <= 0
       THEN /\ call'.err = "InvalidSpeed"
            /\ playbackSpeed' = playbackSpeed
            /\ emitted' = <<>>
       ELSE /\ call'.err = "none"
            /\ playbackSpeed' = call'.arg
            /\ Len(emitted') = 1
            /\ emitted'[1].ev.type = "speed-change"
            /\ emitted'[1].to = eventListeners]_vars

\* A speed change accepted while a listener is subscribed.
C9_Witness ==
  /\ call.op = "setPlaybackSpeed"
  /\ call.err = "none"
  /\ playbackSpeed = 2
  /\ Len(emitted) = 1
  /\ emitted[1].to # {}

\* C10: the only calls that fail are seekToEditIndex with an index outside
\* [0, edits.length) and setPlaybackSpeed with speed <= 0.
C10_OnlyValidatedCallsFail ==
  call.err # "none" =>
    \/ /\ call.op = "seekToEditIndex"
       /\ call.err = "InvalidIndex"
       /\ (call.arg < 0 \/ call.arg >= Len(edits))
    \/ /\ call.op = "setPlaybackSpeed"
       /\ call.err = "InvalidSpeed"
       /\ call.arg <= 0

\* Whether none of the events in the sequence out is a "playback" event.
NoPlayback(out) == \A k \in 1 .. Len(out) : out[k].ev.type # "playback"

\* C11: a run of playForward or playBackward that has entered its loop has, when
\* it has returned, produced exactly one "stop" event (its own or that of the
\* pause() that ended it), and that event carries the engine's current index.
C11_OneStopWithFinalIndex ==
  (run.done /\ run.iter) =>
    /\ run.stops = 1
    /\ run.carried = currentEditIndex

\* C12: once pause() and then resume() were called while a play loop waits, the
\* loop, when its wait ends, applies no further edit and emits no further
\* "playback" event.
C12_ResumeDoesNotContinue ==
  [][(call'.op = "wake" /\ run.paused /\ run.resumed) =>
       /\ playbackDoc' = playbackDoc
       /\ NoPlayback(emitted')]_vars

\* C13: once pause() was called while a play loop waits, and no resume() followed,
\* the loop exits when its wait ends: it applies no further edit, emits no
\* further "playback" event, and the playing flag is false when it returns.
C13_PauseStopsLoop ==
  [][(call'.op = "wake" /\ run.paused /\ ~run.resumed) =>
       /\ playbackDoc' = playbackDoc
       /\ NoPlayback(emitted')
       /\ loop' = NoLoop
       /\ run'.done
       /\ ~isPlaying']_vars

\* A play loop that returned after a pause() during its wait, with edits of its
\* log left unapplied and a listener subscribed.
C13_Witness ==
  /\ call.op = "wake"
  /\ run.done
  /\ run.paused
  /\ ~run.resumed
  /\ playbackDoc # <<>>
  /\ currentEditIndex < Len(edits)
  /\ eventListeners # {}

\* C14: the recorder captures a snapshot in the step in which the edit count
\* becomes a positive multiple of the snapshot interval, and for no other
\* recorded edit; that snapshot has editIndex = edit count - 1.
C14_SnapshotCadence ==
  [][Len(edits') = Len(edits) + 1 =>
       IF Len(edits') % SnapshotInterval = 0
       THEN /\ Len(snapshots') = Len(snapshots) + 1
            /\ SubSeq(snapshots', 1, Len(snapshots)) = snapshots
            /\ snapshots'[Len(snapshots')].editIndex = Len(edits') - 1
       ELSE snapshots' = snapshots]_vars

\* An edit count that has just become a multiple of the interval, with the
\* periodic snapshot as the newest of several.
C14_Witness ==
  /\ Len(edits) > 0
  /\ Len(edits) % SnapshotInterval = 0
  /\ Len(snapshots) >= 2
  /\ snapshots[Len(snapshots)].editIndex = Len(edits) - 1

\* C15: after initializeVersionTracking on a fresh recorder and until clearHistory
\* is called, the snapshot list starts with the initial snapshot of editIndex -1
\* and holds 1 + floor(edit count / interval) snapshots.
C15_InitialAndPeriodicSnapshots ==
  (tracking = "active" /\ ~cleared) =>
    /\ Len(snapshots) = 1 + (Len(edits) \div SnapshotInterval)
    /\ snapshots[1].editIndex = -1

\* A tracked recorder, never cleared, that has taken a periodic snapshot and
\* recorded an edit since.
C15_Witness ==
  /\ tracking = "active"
  /\ ~cleared
  /\ Len(snapshots) >= 2
  /\ Len(edits) % SnapshotInterval # 0

\* C16: the snapshot list is ordered by non-decreasing timestamp and by
\* non-decreasing editIndex, and the edit list by non-decreasing timestamp.
C16_LogsOrdered ==
  /\ \A i, j \in 1 .. Len(snapshots) :
       i <= j => /\ snapshots[i].timestamp <= snapshots[j].timestamp
                 /\ snapshots[i].editIndex <= snapshots[j].editIndex
  /\ \A i, j \in 1 .. Len(edits) :
       i <= j => edits[i].timestamp <= edits[j].timestamp

\* Snapshots taken at different times and edits recorded at different times.
C16_Witness ==
  /\ \E i, j \in 1 .. Len(snapshots) : snapshots[i].timestamp < snapshots[j].timestamp
  /\ \E i, j \in 1 .. Len(edits) : edits[i].timestamp < edits[j].timestamp

\* C17: each delta of the tracked document appends exactly one edit, holding
\* that delta, at the end of the log, whatever its classification, and leaves
\* the edits before it unchanged; the log only ever grows at its end, except
\* when clearHistory empties it.
C17_AppendOnly ==
  [][/\ liveDoc' # liveDoc =>
          /\ edits' = edits \o <<edits'[Len(edits')]>>
          /\ ApplyUpdate(liveDoc, edits'[Len(edits')].yUpdate) = liveDoc'
     /\ \/ edits' = edits
        \/ Len(edits') = Len(edits) + 1 /\ SubSeq(edits', 1, Len(edits)) = edits
        \/ edits' = <<>> /\ snapshots' = <<>> /\ editCounter' = 0]_vars

\* A log that has grown by two edits, classified unknown, since it was cleared.
C17_Witness ==
  /\ cleared
  /\ Len(edits) >= 2
  /\ edits[Len(edits)].operation = "unknown"

\* C18: over the life of a recorder, across clearHistory calls, no two edits it
\* creates carry the same id.
C18_IdsNeverReused ==
  /\ \A i, j \in 1 .. Len(edits) : edits[i].id = edits[j].id => i = j
  /\ \A i \in 1 .. Len(edits) : edits[i].id \notin retired

\* C19: a delta that inserts text at the end or at the start of the shared text
\* records exactly one edit, with operation insert and the inserted text as its
\* content.
C19_InsertRecorded ==
  [][LET before == GetText(liveDoc)
         after == GetText(liveDoc')
         n == Len(after) - Len(before)
     IN  (n > 0 /\ (SubSeq(after, 1, Len(before)) = before
                      \/ SubSeq(after, n + 1, Len(after)) = before)) =>
           /\ Len(edits') = Len(edits) + 1
           /\ edits'[Len(edits')].operation = "insert"
           /\ edits'[Len(edits')].content =
                <<IF SubSeq(after, 1, Len(before)) = before
                  THEN SubSeq(after, Len(before) + 1, Len(after))
                  ELSE SubSeq(after, 1, n)>>]_vars

\* C20: a recorded edit is an insert iff the text after the delta is longer
\* than the text before it, a delete iff it is shorter, a format iff it has the
\* same length and another content, and unknown otherwise; delete and format
\* edits have null content.
C20_OperationFromTexts ==
  [][liveDoc' # liveDoc =>
       LET before == GetText(liveDoc)
           after == GetText(liveDoc')
           edit == edits'[Len(edits')]
       IN  /\ edit.operation = "insert" <=> Len(after) > Len(before)
           /\ edit.operation = "delete" <=> Len(after) < Len(before)
           /\ edit.operation = "format" <=>
                (Len(after) = Len(before) /\ after # before)
           /\ edit.operation = "unknown" <=> after = before
           /\ edit.operation \in {"delete", "format"} => edit.content = <<>>]_vars

\* Whether the calls are exactly one call for each of the listeners, each with
\* the edit list es and the snapshot list snaps.
OnceEach(calls, listeners, es, snaps) ==
  /\ \A l \in listeners :
       Cardinality({k \in 1 .. Len(calls) : calls[k].listener = l}) = 1
  /\ \A k \in 1 .. Len(calls) :
       /\ calls[k].listener \in listeners
       /\ calls[k].edits = es
       /\ calls[k].snapshots = snaps

\* C21: in the step that records an edit every listener subscribed then is called
\* exactly once, with the complete edit list, ending with the new edit, and the
\* complete snapshot list, including a snapshot captured for that edit; no other
\* listener, in particular none that was unsubscribed, is called.
C21_ListenersNotifiedOnEdit ==
  [][Len(edits') = Len(edits) + 1 =>
       OnceEach(notified'.calls, updateListeners, edits', snapshots')]_vars

\* An edit, recorded together with its periodic snapshot, of which one of the
\* two listeners was notified, the other not being subscribed.
C21_Witness ==
  /\ notified.op = "captureEdit"
  /\ Len(notified.calls) = 1
  /\ Len(edits) > 0
  /\ Len(snapshots) > 0
  /\ snapshots[Len(snapshots)].editIndex = Len(edits) - 1
  /\ notified.calls[1].snapshots = snapshots

\* C22: after clearHistory() the edit list and the snapshot list are empty, the
\* edit count and the id counter are 0, and every subscribed listener was
\* notified once, with the two empty lists.
C22_ClearHistoryResets ==
  notified.op = "clearHistory" =>
    /\ edits = <<>>
    /\ snapshots = <<>>
    /\ Len(edits) = 0
    /\ editCounter = 0
    /\ OnceEach(notified.calls, updateListeners, <<>>, <<>>)

\* A clearHistory() that removed edits, with both listeners subscribed.
C22_Witness ==
  /\ notified.op = "clearHistory"
  /\ retired # {}
  /\ Len(notified.calls) = 2

\* C23: once the teardown function was called, a delta applied to the document
\* changes neither the edit list nor the snapshot list and no listener is
\* notified of it; the teardown itself leaves the recorded edits and snapshots
\* as they are.
C23_TeardownStopsRecording ==
  [][/\ (tracking = "stopped" /\ liveDoc' # liveDoc) =>
          /\ UNCHANGED <<edits, snapshots>>
          /\ notified'.calls = <<>>
     /\ (tracking = "active" /\ tracking' = "stopped") =>
          UNCHANGED <<edits, snapshots>>]_vars

\* A delta that reached the document after the teardown, with edits recorded
\* before it and a listener still subscribed.
C23_Witness ==
  /\ tracking = "stopped"
  /\ notified.op = "delta"
  /\ Len(edits) > 0
  /\ updateListeners # {}

\* C24: after seekToStart, whatever the log holds (nothing included), the
\* playback document is a new empty document, the current index is 0, and
\* exactly one event was emitted: a "seek" event with currentEditIndex 0,
\* delivered with that document to every listener subscribed.
C24_SeekToStartFresh ==
  call.op = "seekToStart" =>
    /\ playbackDoc = <<EmptyDoc>>
    /\ GetText(playbackDoc[1]) = <<>>
    /\ currentEditIndex = 0
    /\ Len(emitted) = 1
    /\ emitted[1].ev.type = "seek"
    /\ emitted[1].ev.currentEditIndex = 0
    /\ emitted[1].ev.totalEdits = Len(edits)
    /\ emitted[1].doc = playbackDoc
    /\ emitted[1].to = eventListeners

\* seekToStart on a log of two edits or more, with a listener subscribed.
C24_Witness ==
  call.op = "seekToStart" /\ eventListeners # {} /\ Len(edits) >= 2 /\ emitted # <<>>

\* Whether the fraction w of a ms is n ms.
IsMs(w, n) == w[1] = n * w[2]

\* w = a / b, by cross-multiplication.
IsQuotient(w, a, b) == w[1] * b = a * w[2]

\* The pacing rule: the sleep is gap / speed when that is under 2000 ms,
\* and 2000 ms otherwise.
PacingRule ==
  slept.asked =>
    IF slept.gap * slept.speed[2] < 2000 * slept.speed[1]
    THEN IsQuotient(slept.ms, slept.gap * slept.speed[2], slept.speed[1])
    ELSE IsMs(slept.ms, 2000)

\* C25 as stated: the pacing rule; 500 ms for a gap of 1000 ms at speed 2; and
\* 2000 ms for a gap of 10,000 ms at every speed.
C25_CappedRegardlessOfSpeed ==
  /\ PacingRule
  /\ (slept.asked /\ slept.gap = 1000 /\ slept.speed = <<2, 1>>) => IsMs(slept.ms, 500)
  /\ (slept.asked /\ slept.gap = 10000) => IsMs(slept.ms, 2000)

\* C25, amended: between the playback events of two consecutive edits
\* playForward waits min(2000 ms, gap / speed): 500 ms for a gap of 1000 ms at
\* speed 2; 2000 ms for a gap of 10,000 ms at every speed up to 5; and
\* 10,000 / speed ms, which is less than 2000 ms, at a speed above 5.
C25_PacingCap ==
  /\ PacingRule
  /\ (slept.asked /\ slept.gap = 1000 /\ slept.speed = <<2, 1>>) => IsMs(slept.ms, 500)
  /\ (slept.asked /\ slept.gap = 10000 /\ slept.speed[1] <= 5 * slept.speed[2])
        => IsMs(slept.ms, 2000)
  /\ (slept.asked /\ slept.gap = 10000 /\ slept.speed[1] > 5 * slept.speed[2])
        => /\ IsQuotient(slept.ms, 10000 * slept.speed[2], slept.speed[1])
           /\ slept.ms[1] < 2000 * slept.ms[2]

\* A gap of 10,000 ms at speed 8: a wait of 1250 ms.
C25_Witness ==
  slept.asked /\ slept.gap = 10000 /\ slept.speed = <<8, 1>> /\ IsMs(slept.ms, 1250)

\* C26: every event a call of the engine produces, the playback and stop
\* events of a play call that was given an onUpdate callback included, goes
\* once to each listener subscribed at that moment, and to no listener that is
\* not subscribed (receiver 0 is the onUpdate callback, not a listener).
C26_EveryEventToEverySubscriber ==
  \A k \in 1 .. Len(emitted) :
    /\ eventListeners \subseteq emitted[k].to
    /\ emitted[k].to \ {0} \subseteq eventListeners

\* C27: after reset(), whatever the engine held before, there is no playback
\* document, the current index is 0, the playing flag is off and the speed is 1:
\* the four fields are those of a newly constructed engine.
C27_ResetRestoresIdle ==
  call.op = "reset" =>
    /\ playbackDoc = <<>>
    /\ currentEditIndex = 0
    /\ ~isPlaying
    /\ playbackSpeed = 1

\* A reset of an engine that held a document, an index above 0, the playing
\* flag and another speed.
C27_Witness == call.op = "reset" /\ call.arg = 1 /\ playbackDoc = <<>>

\* C28: the playing flag, which isCurrentlyPlaying() returns, is off on a newly
\* constructed engine, on after resume() (also when no play loop is running),
\* and off after pause().
C28_PlayingFlag ==
  /\ (Constructed => ~isPlaying)
  /\ (call.op = "resume" => isPlaying)
  /\ (call.op = "pause" => ~isPlaying)

\* After resume() on an engine that has no play loop, with a document seeked to.
C28_Witness ==
  call.op = "resume" /\ loop = NoLoop /\ isPlaying /\ playbackDoc # <<>> /\ Len(edits) > 0

\* C29: a stepBackward from index n > 0 leaves the index at n - 1 and a
\* playback document whose content is that of a replay, from an empty document,
\* of the edits 0 .. n - 1 of the log.
C29_StepBackwardEqualsFullReplay ==
  (call.op = "stepBackward" /\ call.err = "none" /\ emitted # <<>>) =>
    /\ currentEditIndex = emitted[1].ev.currentEditIndex
    /\ currentEditIndex < Len(edits)
    /\ GetText(playbackDoc[1]) = GetText(DocOf(edits, 1 .. (currentEditIndex + 1)))

\* The calls that move the engine over a log without a play loop.
SeekAndStepCalls ==
  {"seekToStart", "seekToTimestamp", "seekToEditIndex", "seekToEnd", "stepForward",
   "stepBackward"}

\* Whether the playback document holds exactly the edits below the current index.
HoldsEditsBelowIndex ==
  /\ playbackDoc # <<>>
  /\ currentEditIndex <= Len(edits)
  /\ GetText(playbackDoc[1]) = GetText(DocOf(edits, 1 .. currentEditIndex))

\* C30: over a log that stays as it is, a seek or a step made when the playback
\* document holds exactly the edits with index < the current index leaves a
\* document that again holds exactly the edits with index < the current index;
\* so a stepBackward right after a stepForward restores content and index.
C30_DocHoldsEditsBelowIndex ==
  [][(/\ call.op \in SeekAndStepCalls
      /\ call.err = "none"
      /\ HoldsEditsBelowIndex
      /\ call'.op \in SeekAndStepCalls
      /\ call'.err = "none") => HoldsEditsBelowIndex']_vars

\* The indices from, from + 1, ..., to - 1, in order.
Ascending(from, to) == [i \in 1 .. (IF to > from THEN to - from ELSE 0) |-> from + i - 1]

\* The indices from - 1, from - 2, ..., 0, in order.
Descending(from) == [i \in 1 .. from |-> from - i]

\* A play call of direction dir has just returned, and no other engine call
\* arrived while its loop was suspended.
JustReturned(dir) ==
  /\ played.on /\ played.dir = dir /\ played.ended /\ played.quiet
  /\ call.op \in {"playForward", "playBackward", "wake"}
  /\ loop = NoLoop

\* C31 (what holds on return): a playForward started at index k on a log, with
\* no other engine call arriving while it waits, returns without failing after
\* one "playback" event for each edit k .. edits.length - 1, in log order, each
\* carrying the edit of the log at its index, and leaves the current index at
\* edits.length and the playing flag off.
C31_PlayForwardPlaysToEnd ==
  JustReturned("fwd") =>
    /\ played.err = "none"
    /\ played.idxs = Ascending(played.from, played.total)
    /\ played.faithful
    /\ currentEditIndex = played.total
    /\ ~isPlaying

\* C32: a playBackward started at index n > 0 with a document, with no other
\* engine call arriving while it waits, returns without failing after exactly n
\* "playback" events carrying the edits n - 1, n - 2, ..., 0 in that order and
\* one "stop" event, with the current index at 0; started at index 0 or without
\* a document it returns with no event, the engine as it was.
C32_PlayBackwardPlaysToStart ==
  /\ JustReturned("bwd") =>
        IF played.from = 0 \/ playbackDoc = <<>>
        THEN played.idxs = <<>> /\ played.stops = 0 /\ emitted = <<>>
             /\ currentEditIndex = played.from
        ELSE /\ played.err = "none"
             /\ played.idxs = Descending(played.from)
             /\ played.faithful
             /\ played.stops = 1
             /\ currentEditIndex = 0
             /\ ~isPlaying

\* C33: in every state, also when a seek, a reset or a pause and resume arrived
\* while a play loop was suspended in its wait, the current index is at least 0
\* and at most the length of the log (here the log never shrinks, so the length
\* of the recorder's log bounds the length of every log a call was given).
C33_IndexWithinLog ==
  /\ currentEditIndex >= 0
  /\ currentEditIndex <= Len(edits)

\* C34: when reset() was called while a play loop was suspended in its wait and
\* that loop then returns, the engine is as reset() left it: current index 0, no
\* playback document, playing flag off.
C34_ResetSurvivesLoop ==
  [][(/\ call.op = "reset"
      /\ loop # NoLoop
      /\ call'.op = "wake"
      /\ loop' = NoLoop)
       => (currentEditIndex' = 0 /\ playbackDoc' = <<>> /\ ~isPlaying')]_vars

\* C35: in every state of the recorder, every snapshot's editIndex lies in
\* -1 .. edit count - 1; a snapshot with editIndex k >= 0 is stamped no earlier
\* than edit k and no later than edit k + 1 when that edit exists; and so the
\* snapshot selected for a target time t covers, by its editIndex and by its
\* state, no edit with a timestamp > t.
C35_SnapshotsOrderedWithEdits ==
  /\ \A j \in 1 .. Len(snapshots) :
       LET k == snapshots[j].editIndex
       IN  /\ k >= -1
           /\ k <= Len(edits) - 1
           /\ k >= 0 => snapshots[j].timestamp >= EditAt(edits, k).timestamp
           /\ (k >= 0 /\ k + 1 < Len(edits))
                 => snapshots[j].timestamp <= EditAt(edits, k + 1).timestamp
  /\ \A t \in Times :
       LET s == FindClosestSnapshot(t, snapshots)
       IN  s # <<>> =>
             \A i \in 1 .. Len(edits) :
               (i <= s[1].editIndex + 1 \/ Reflected(edits[i], s[1].yDocState))
                 => edits[i].timestamp <= t

\* A periodic snapshot stamped later than the edit it follows, with an edit
\* recorded after it.
C35_Witness ==
  \E j \in 1 .. Len(snapshots) :
    /\ snapshots[j].editIndex >= 0
    /\ snapshots[j].editIndex + 1 < Len(edits)
    /\ snapshots[j].timestamp > EditAt(edits, snapshots[j].editIndex).timestamp

\* C36: findClosestSnapshot(target) returns a snapshot of the list whose
\* timestamp is <= target and is the greatest among the snapshots with a
\* timestamp <= target; it returns none exactly when the list is empty or every
\* snapshot is later than target; and the recorder's implementation returns the
\* same snapshot as the engine's for the same list and target.
C36_ClosestSnapshot ==
  found.asked =>
    LET atOrBefore == {j \in 1 .. Len(found.list) : found.list[j].timestamp <= found.target}
    IN  /\ found.engine = <<>> <=> atOrBefore = {}
        /\ found.engine # <<>> =>
              /\ \E j \in atOrBefore : found.list[j] = found.engine[1]
              /\ \A j \in atOrBefore : found.list[j].timestamp <= found.engine[1].timestamp
        /\ found.recorder = found.engine

\* A lookup in a list of three snapshots out of order, two of them sharing the
\* closest timestamp and one later than the target.
C36_Witness ==
  /\ found.asked
  /\ Len(found.list) = 3
  /\ found.engine # <<>>
  /\ found.list[1].timestamp > found.target
  /\ found.list[2].timestamp = found.list[3].timestamp
  /\ found.engine[1] = found.list[2]

\* C37: after each successful seekToStart, seekToEnd, seekToTimestamp or
\* seekToEditIndex, on an empty or a non-empty log, exactly one event was
\* emitted, a "seek" event whose currentEditIndex is the resulting current
\* index and whose totalEdits is the length of the log; and after seekToEnd on
\* a non-empty log the current index is edits.length.
C37_SeeksEmitOneSeekEvent ==
  (call.op \in {"seekToStart", "seekToEnd", "seekToTimestamp", "seekToEditIndex"}
     /\ call.err = "none") =>
    /\ Len(emitted) = 1
    /\ emitted[1].ev.type = "seek"
    /\ emitted[1].ev.currentEditIndex = currentEditIndex
    /\ emitted[1].ev.totalEdits = Len(edits)
    /\ (call.op = "seekToEnd" /\ Len(edits) > 0) => currentEditIndex = Len(edits)

\* C38: a stepForward made when the current index equals edits.length, and a
\* stepBackward made when the current index is 0 (a new engine with an empty
\* log included), do not fail, leave the current index as it is and emit no
\* event; stepForward leaves a playback document to return, stepBackward leaves
\* the playback document as it is.
C38_StepsAtTheEndsDoNothing ==
  [][/\ (call'.op = "stepForward" /\ currentEditIndex = Len(edits)) =>
          /\ call'.err = "none"
          /\ emitted' = <<>>
          /\ currentEditIndex' = currentEditIndex
          /\ playbackDoc' # <<>>
          /\ playbackDoc # <<>> => playbackDoc' = playbackDoc
     /\ (call'.op = "stepBackward" /\ currentEditIndex = 0) =>
          /\ call'.err = "none"
          /\ emitted' = <<>>
          /\ UNCHANGED <<playbackDoc, currentEditIndex>>]_vars

\* A stepForward at the end of a log of two edits or more: no event, the index
\* still edits.length.
C38_Witness ==
  /\ call.op = "stepForward"
  /\ call.err = "none"
  /\ emitted = <<>>
  /\ Len(edits) >= 2
  /\ currentEditIndex = Len(edits)

\* The sum of the counts of an object of counters.
RECURSIVE SumOf(_)
SumOf(counts) ==
  IF DOMAIN counts = {} THEN 0
  ELSE LET k == CHOOSE k \in DOMAIN counts : TRUE
       IN  counts[k].n + SumOf([j \in DOMAIN counts \ {k} |-> counts[j]])

\* C39: for every log, the per-user groups of getEditTimeline() are the edits
\* of each user in log order, one group per user of the log (a partition of the
\* log); the counts of getStatistics().editsByUser and .editsByType are numbers
\* that each sum to totalEdits, the number of edits; timeSpan is the last
\* timestamp minus the first (0 for the empty log); and findEditsByTimeRange(a, b)
\* is the edits with a <= timestamp <= b in log order.
C39_QueryViewsConsistent ==
  viewed.asked =>
    LET es == viewed.log
        st == viewed.statistics
    IN  /\ DOMAIN viewed.timeline = {es[i].userName : i \in 1 .. Len(es)}
        /\ \A u \in DOMAIN viewed.timeline :
             viewed.timeline[u] = SelectSeq(es, LAMBDA e : e.userName = u)
        /\ st.totalEdits = Len(es)
        /\ \A u \in DOMAIN st.editsByUser : st.editsByUser[u].isNumber
        /\ SumOf(st.editsByUser) = st.totalEdits
        /\ \A o \in DOMAIN st.editsByType : st.editsByType[o].isNumber
        /\ SumOf(st.editsByType) = st.totalEdits
        /\ st.timeSpan = IF Len(es) = 0 THEN 0 ELSE es[Len(es)].timestamp - es[1].timestamp
        /\ viewed.range = SelectSeq(es, LAMBDA e : /\ e.timestamp >= viewed.startTime
                                                  /\ e.timestamp <= viewed.endTime)

====
